---- MODULE Spec2Model ----
(***************************************************************************)
(* A model of web/main.js: the input manager, the player body, the level   *)
(* streaming window and collision resolver, the HUD counters and the game  *)
(* loop (requestAnimationFrame chain, deferred reset timer, start/stop).   *)
(*                                                                         *)
(* Numbers.  The program computes in IEEE doubles; the model computes in   *)
(* exact fixed point, with units chosen so that every product the vertical *)
(* physics forms is an integer:                                            *)
(*   time      1 tick = 1/300 s         (MAX_DELTA_TIME = 1/30 s = 10)     *)
(*   velocity  1 unit = 1/300 px/s      (VU units per px/s)                *)
(*   height    1 unit = 1/90000 px      (YU units per px)                  *)
(*   speed     1 unit = 1/100 px/s      (SU units per px/s)                *)
(*   abscissa  1 unit = 1/30000 px      (XU units per px)                  *)
(* so that  velocity += gravity*dt,  y += velocity*dt  and                 *)
(* scrollX += currentSpeed*dt  are exact.  The one irrational quantity,    *)
(* 1 - exp(-6 dt), is tabulated to four decimals (Smoothing).              *)
(***************************************************************************)
EXTENDS Integers, Sequences, FiniteSets, TLC

VARIABLES
  input,    \* InputManager's fields
  player,   \* Player's fields
  level,    \* Level's fields; activeSegments with their entities' cooldowns
  hud,      \* Hud's attempt, distance, runTime
  game,     \* Game's isRunning, attempt; the pending frame callbacks and timers
  env,      \* the host: the display's refresh interval
  obs       \* observations of the last operation (history, not program state)

vars == <<input, player, level, hud, game, env, obs>>

----------------------------------------------------------------------------
(* Units *)

TPS == 3 * 100          \* ticks per second
VU  == 3 * 100          \* velocity units per px/s
YU  == 300 * 300        \* height units per px
SU  == 10 * 10          \* speed units per px/s
XU  == 100 * 300        \* abscissa units per px

Min(a, b) == IF a <= b THEN a ELSE b
Max(a, b) == IF a >= b THEN a ELSE b
Abs(a)    == IF a >= 0 THEN a ELSE -a

----------------------------------------------------------------------------
(* Program constants *)

WORLD_HEIGHT   == 720
FLOOR_Y        == (WORLD_HEIGHT - 120) * YU
CEILING_Y      == 120 * YU
PLAYER_SIZE    == 64
MAX_DELTA_TIME == TPS \div 30

FloorPx   == WORLD_HEIGHT - 120     \* FLOOR_Y in px, for the segment library
CeilingPx == 120                    \* CEILING_Y in px

\* Player's constructor
anchorX      == 260 * XU
halfSize     == (PLAYER_SIZE * YU) \div 2
halfWidth    == (PLAYER_SIZE * XU) \div 2
gravity      == 2200                \* px/s^2
maxFallSpeed == 1800 * VU
maxRiseSpeed == 1200 * VU
jumpStrength == 900 * VU
coyoteTime   == (8 * TPS) \div 100      \* 0.08 s
jumpBufferTime == (12 * TPS) \div 100   \* 0.12 s
spawnY       == FLOOR_Y - halfSize

\* Level's constructor
baseSpeed    == 360 * SU
SegmentCount == 4

----------------------------------------------------------------------------
(* SEGMENT_LIBRARY.  x, width in px; y, height, radius in px; multiplier   *)
(* and gravityScale in hundredths; duration and cooldown in ticks; power   *)
(* in px/s.  A field a type does not carry is 0.                           *)

Entity(t, x, y, w, h) ==
  [type |-> t, x |-> x * XU, y |-> y * YU, width |-> w * XU, height |-> h * YU,
   radius |-> 0, orientation |-> "up", multiplier |-> 0, duration |-> 0,
   gravityScale |-> 0, power |-> 0, cooldown |-> 0, gravity |-> 0]

PlatformE(x, y, w, h) == Entity("platform", x, y, w, h)
SpikeE(x, y, w, h, o) == [Entity("spike", x, y, w, h) EXCEPT !.orientation = o]
BoosterE(x, y, w, h, m, d, gs) ==
  [Entity("booster", x, y, w, h) EXCEPT
     !.multiplier = m, !.duration = (d * TPS) \div 10, !.gravityScale = gs]
OrbE(x, y, r, pw, cd) ==
  [Entity("orb", x, y, 0, 0) EXCEPT
     !.radius = r * YU, !.power = pw * VU, !.cooldown = (cd * TPS) \div 100]
PortalE(x, y, w, h, g, cd) ==
  [Entity("portal", x, y, w, h) EXCEPT
     !.gravity = g, !.cooldown = (cd * TPS) \div 100]

SEGMENT_LIBRARY == <<
  [width |-> 1400 * XU, entities |-> <<
     PlatformE(280, FloorPx - 160, 200, 32),
     PlatformE(620, FloorPx - 220, 220, 32),
     PlatformE(940, FloorPx - 320, 180, 32),
     SpikeE(540, FloorPx - 64, 64, 64, "up"),
     SpikeE(860, FloorPx - 64, 64, 64, "up"),
     BoosterE(320, FloorPx - 120, 80, 80, 135, 12, 55),
     OrbE(720, FloorPx - 240, 28, 1050, 35),
     PortalE(1120, FloorPx - 200, 64, 200, -1, 100) >>],
  [width |-> 1200 * XU, entities |-> <<
     PlatformE(120, CeilingPx + 120, 240, 32),
     PlatformE(480, CeilingPx + 180, 200, 32),
     PlatformE(820, CeilingPx + 130, 280, 32),
     SpikeE(360, CeilingPx, 60, 60, "down"),
     SpikeE(700, CeilingPx, 60, 60, "down"),
     OrbE(520, CeilingPx + 220, 26, 980, 40),
     BoosterE(900, CeilingPx + 150, 76, 76, 120, 11, 75),
     PortalE(1000, CeilingPx, 60, 180, 1, 100) >>],
  [width |-> 1360 * XU, entities |-> <<
     PlatformE(180, FloorPx - 140, 200, 32),
     PlatformE(520, FloorPx - 220, 240, 32),
     PlatformE(880, FloorPx - 160, 200, 32),
     PlatformE(1080, FloorPx - 260, 180, 32),
     SpikeE(420, FloorPx - 64, 64, 64, "up"),
     SpikeE(760, FloorPx - 64, 64, 64, "up"),
     SpikeE(1020, FloorPx - 64, 64, 64, "up"),
     OrbE(640, FloorPx - 260, 30, 1100, 30),
     BoosterE(260, FloorPx - 120, 80, 80, 125, 14, 60) >>],
  [width |-> 1280 * XU, entities |-> <<
     PlatformE(160, FloorPx - 200, 180, 32),
     PlatformE(480, FloorPx - 280, 200, 32),
     PlatformE(800, FloorPx - 220, 220, 32),
     PlatformE(1080, FloorPx - 320, 160, 32),
     OrbE(380, FloorPx - 320, 26, 1120, 35),
     OrbE(960, FloorPx - 360, 28, 1180, 35),
     SpikeE(560, FloorPx - 64, 64, 64, "up"),
     SpikeE(900, FloorPx - 64, 64, 64, "up"),
     BoosterE(680, FloorPx - 120, 80, 80, 130, 13, 60) >> ] >>

----------------------------------------------------------------------------
(* Geometry: Rectangle and Circle *)

Rectangle(x, y, w, h) ==
  [left |-> x, right |-> x + w, top |-> y, bottom |-> y + h]

RectCenterX(r) == r.left + (r.right - r.left) \div 2

\* Rectangle.intersects: touching edges do not intersect
Intersects(a, b) ==
  ~(a.right <= b.left \/ a.left >= b.right \/ a.bottom <= b.top \/ a.top >= b.bottom)

\* a*a + b*b <= c*c for magnitudes beyond 32 bits: squares in base 10^6
SqHi(a) == (a \div 1000) * (a \div 1000) + (2 * (a \div 1000) * (a % 1000)) \div 1000
SqLo(a) == ((2 * (a \div 1000) * (a % 1000)) % 1000) * 1000 + (a % 1000) * (a % 1000)
SumSqLeq(a, b, c) ==
  LET lo == SqLo(a) + SqLo(b)
      hi == SqHi(a) + SqHi(b) + lo \div 1000000
      l  == lo % 1000000
      ch == SqHi(c) + SqLo(c) \div 1000000
      cl == SqLo(c) % 1000000
  IN  hi < ch \/ (hi = ch /\ l <= cl)

\* Circle.intersectsRect, the circle at (cx, cy) in (abscissa, height) units;
\* the horizontal distance is brought to height units (YU = 3 XU).
CircleIntersectsRect(cx, cy, radius, rect) ==
  LET closestX == Max(rect.left, Min(cx, rect.right))
      closestY == Max(rect.top, Min(cy, rect.bottom))
      dx == Abs(cx - closestX) * (YU \div XU)
      dy == Abs(cy - closestY)
  IN  dx <= radius /\ dy <= radius /\ SumSqLeq(dx, dy, radius)

----------------------------------------------------------------------------
(* InputManager *)

InputInit ==
  [jumpQueue |-> 0, jumpPressedThisFrame |-> FALSE, jumpHeld |-> FALSE,
   pointerHeld |-> FALSE, restartRequested |-> FALSE]

\* #handleJumpPress
HandleJumpPress(inp) ==
  [inp EXCEPT !.jumpQueue = @ + 1, !.jumpPressedThisFrame = TRUE]

\* the pointerdown listener
OnPointerDown(inp) == [HandleJumpPress(inp) EXCEPT !.pointerHeld = TRUE]

\* the pointerup and pointercancel listeners
OnPointerUp(inp) == [inp EXCEPT !.pointerHeld = FALSE, !.jumpHeld = FALSE]

\* the keydown listener, for a key of JUMP_KEYS and for KeyR
OnKeyDownJump(inp) ==
  [(IF ~inp.jumpHeld THEN HandleJumpPress(inp) ELSE inp) EXCEPT !.jumpHeld = TRUE]
OnKeyDownR(inp) == [inp EXCEPT !.restartRequested = TRUE]

\* the keyup listener, for a key of JUMP_KEYS
OnKeyUpJump(inp) == [inp EXCEPT !.jumpHeld = FALSE]

\* consumeJumpRequest: the value returned, and the manager afterwards
ConsumeJumpResult(inp) == inp.jumpQueue > 0

\* a consumption that takes one press off the queue
ConsumeJumpRequestOnePress(inp) ==
  IF inp.jumpQueue > 0 THEN [inp EXCEPT !.jumpQueue = @ - 1] ELSE inp

ConsumeJumpRequest(inp) ==
  IF inp.jumpQueue > 0 THEN [inp EXCEPT !.jumpQueue = 0] ELSE inp

isJumpHeld(inp) == inp.jumpHeld \/ inp.pointerHeld
didPressJumpThisFrame(inp) == inp.jumpPressedThisFrame

\* consumeRestartRequest returns restartRequested and clears it
ConsumeRestartRequest(inp) == [inp EXCEPT !.restartRequested = FALSE]

finalizeFrame(inp) == [inp EXCEPT !.jumpPressedThisFrame = FALSE]

----------------------------------------------------------------------------
(* Player *)

\* the constructor; gravityScaleDuringBoost in hundredths
PlayerNew ==
  [x |-> anchorX, y |-> spawnY, previousY |-> spawnY, vy |-> 0,
   gravityDirection |-> 1, isGrounded |-> FALSE, isAlive |-> TRUE,
   coyoteTimer |-> 0, jumpBuffer |-> 0, boostTimer |-> 0,
   speedMultiplier |-> 100, gravityScaleDuringBoost |-> 65]

\* reset(): everything but gravityScaleDuringBoost
\* a reset that leaves the speed multiplier as it is
PlayerResetBoosted(p) ==
  [p EXCEPT !.x = anchorX, !.y = spawnY, !.previousY = spawnY, !.vy = 0,
            !.gravityDirection = 1, !.isGrounded = FALSE, !.isAlive = TRUE,
            !.coyoteTimer = 0, !.jumpBuffer = 0, !.boostTimer = 0]

PlayerReset(p) ==
  [p EXCEPT !.x = anchorX, !.y = spawnY, !.previousY = spawnY, !.vy = 0,
            !.gravityDirection = 1, !.isGrounded = FALSE, !.isAlive = TRUE,
            !.coyoteTimer = 0, !.jumpBuffer = 0, !.boostTimer = 0,
            !.speedMultiplier = 100]

getBounds(p) ==
  [left |-> p.x - halfWidth, right |-> p.x + halfWidth,
   top |-> p.y - halfSize, bottom |-> p.y + halfSize]

previousBottom(p) == p.previousY + halfSize
previousTop(p)    == p.previousY - halfSize

\* update(dt, input) of a live player, jumpRequested being what
\* input.consumeJumpRequest() returned
PlayerIntegrate(p, dt, jumpRequested) ==
  LET buffer0 == IF jumpRequested THEN jumpBufferTime ELSE p.jumpBuffer
      gravityScale == IF p.boostTimer > 0 THEN p.gravityScaleDuringBoost ELSE 100
      \* gravity * direction * scale * dt, in velocity units
      v1 == p.vy + (gravity \div 100) * p.gravityDirection * gravityScale * dt
      v2 == Min(maxFallSpeed, Max(-maxRiseSpeed, v1))
      boost1 == Max(0, p.boostTimer - dt)
  IN  [p EXCEPT !.jumpBuffer = Max(0, buffer0 - dt),
                !.previousY = p.y,
                !.vy = v2,
                !.y = p.y + v2 * dt,
                !.coyoteTimer = Max(0, p.coyoteTimer - dt),
                !.boostTimer = IF p.boostTimer > 0 THEN boost1 ELSE p.boostTimer,
                !.speedMultiplier =
                   IF p.boostTimer > 0 /\ boost1 = 0 THEN 100 ELSE p.speedMultiplier]

PlayerUpdate(p, dt, jumpRequested) ==
  IF ~p.isAlive THEN p ELSE PlayerIntegrate(p, dt, jumpRequested)

performJump(p, strength) ==
  [p EXCEPT !.vy = -strength * p.gravityDirection, !.isGrounded = FALSE,
            !.coyoteTimer = 0]

\* an orb jump that goes up the screen whatever the gravity
performOrbJumpUp(p, power) ==
  [p EXCEPT !.vy = -power, !.isGrounded = FALSE, !.coyoteTimer = 0]

performOrbJump(p, power) ==
  [p EXCEPT !.vy = -power * p.gravityDirection, !.isGrounded = FALSE,
            !.coyoteTimer = 0]

\* a buffered jump that needs the player grounded and within coyote time
JumpDueGroundedInCoyote(p) ==
  p.isAlive /\ p.jumpBuffer > 0 /\ (p.isGrounded /\ p.coyoteTimer > 0)

\* whether postResolve performs the buffered jump
JumpDue(p) ==
  p.isAlive /\ p.jumpBuffer > 0 /\ (p.isGrounded \/ p.coyoteTimer > 0)

postResolve(p) ==
  IF JumpDue(p) THEN [performJump(p, jumpStrength) EXCEPT !.jumpBuffer = 0] ELSE p

\* a landing that puts the player above the surface whatever the gravity
landAbove(p, surfaceY) ==
  [p EXCEPT !.y = surfaceY - halfSize,
            !.vy = 0, !.isGrounded = TRUE, !.coyoteTimer = coyoteTime]

land(p, surfaceY) ==
  [p EXCEPT !.y = IF p.gravityDirection = 1 THEN surfaceY - halfSize
                                            ELSE surfaceY + halfSize,
            !.vy = 0, !.isGrounded = TRUE, !.coyoteTimer = coyoteTime]

die(p) == [p EXCEPT !.isAlive = FALSE]

\* applyBoost({multiplier, duration, gravityScale}); a gravityScale of 0 is falsy
\* a boost that replaces the running one
applyBoostReplacing(p, multiplier, duration, gravityScale) ==
  [p EXCEPT !.speedMultiplier = multiplier, !.boostTimer = duration,
            !.gravityScaleDuringBoost =
               IF gravityScale # 0 THEN gravityScale ELSE @]

\* a boost that starts no timer
applyBoostUntimed(p, multiplier, duration, gravityScale) ==
  [p EXCEPT !.speedMultiplier = Max(multiplier, p.speedMultiplier),
            !.gravityScaleDuringBoost =
               IF gravityScale # 0 THEN gravityScale ELSE @]

applyBoost(p, multiplier, duration, gravityScale) ==
  [p EXCEPT !.speedMultiplier = Max(multiplier, p.speedMultiplier),
            !.boostTimer = Max(duration, p.boostTimer),
            !.gravityScaleDuringBoost =
               IF gravityScale # 0 THEN gravityScale ELSE @]

\* a flip that keeps the player grounded
flipGravityGrounded(p, newDirection) ==
  IF newDirection = p.gravityDirection THEN p
  ELSE [p EXCEPT !.gravityDirection = newDirection, !.vy = 0,
                 !.y = IF newDirection = 1 THEN Min(p.y, FLOOR_Y - halfSize)
                                           ELSE Max(p.y, CEILING_Y + halfSize)]

\* flipGravity(targetDirection), targetDirection given
flipGravity(p, newDirection) ==
  IF newDirection = p.gravityDirection THEN p
  ELSE [p EXCEPT !.gravityDirection = newDirection, !.vy = 0,
                 !.y = IF newDirection = 1 THEN Min(p.y, FLOOR_Y - halfSize)
                                           ELSE Max(p.y, CEILING_Y + halfSize),
                 !.isGrounded = FALSE, !.coyoteTimer = 0]

----------------------------------------------------------------------------
(* SegmentEntity, LevelSegment *)

Templates == 1 .. Len(SEGMENT_LIBRARY)

\* SegmentEntity.updateCooldown
updateCooldown(cooldown, dt) ==
  IF cooldown > 0 THEN Max(0, cooldown - dt) ELSE cooldown

\* new LevelSegment(template) followed by reset(offset): fresh entities,
\* every cooldown 0
NewSegment(t, offset) ==
  [template |-> t, offset |-> offset,
   cooldowns |-> [i \in 1 .. Len(SEGMENT_LIBRARY[t].entities) |-> 0]]

\* LevelSegment.end
SegEnd(seg) == seg.offset + SEGMENT_LIBRARY[seg.template].width

----------------------------------------------------------------------------
(* Level: the streaming window *)

\* setViewport(worldWidth)
setViewport(lv, worldWidth) ==
  [lv EXCEPT !.viewportWorldWidth = worldWidth,
             !.recycleMargin = Max(400 * XU, (worldWidth * 3) \div 4)]

\* the segments reset() builds: templates[index % length], end to end
RECURSIVE InitialSegments(_, _)
InitialSegments(index, offset) ==
  IF index >= SegmentCount THEN <<>>
  ELSE LET t == (index % Len(SEGMENT_LIBRARY)) + 1
       IN  <<NewSegment(t, offset)>>
             \o InitialSegments(index + 1, offset + SEGMENT_LIBRARY[t].width)

\* reset()
LevelReset(lv) ==
  [lv EXCEPT !.scrollX = 0, !.currentSpeed = baseSpeed,
             !.activeSegments = InitialSegments(0, 0)]

\* the constructor
LevelNew ==
  [scrollX |-> 0, currentSpeed |-> baseSpeed, viewportWorldWidth |-> 1280 * XU,
   recycleMargin |-> 640 * XU, activeSegments |-> <<>>]

\* 1 - exp(-dt * 6) in ten-thousandths, dt in ticks
\* (-MAX_DELTA_TIME .. MAX_DELTA_TIME)
Smoothing(dt) ==
  IF dt >= 0
  THEN <<0, 198, 392, 582, 768, 951, 1130, 1306, 1478, 1647, 1812>>[Min(dt, 10) + 1]
  ELSE -(<<202, 408, 618, 833, 1052, 1275, 1503, 1735, 1972, 2214>>[Min(-dt, 10)])

\* the speed and scroll part of update(dt, player)
Advance(lv, dt, speedMultiplier) ==
  LET targetSpeed == (baseSpeed * speedMultiplier) \div 100
      speed == lv.currentSpeed
                 + ((targetSpeed - lv.currentSpeed) * Smoothing(dt)) \div 10000
  IN  [lv EXCEPT !.currentSpeed = speed, !.scrollX = lv.scrollX + speed * dt]

\* a recycling test that also takes a segment ending exactly at the threshold
ShouldRecycleAtThreshold(segments, recycleThreshold) ==
  Len(segments) > 0 /\ SegEnd(segments[1]) <= recycleThreshold

\* the test of the recycling loop
ShouldRecycle(segments, recycleThreshold) ==
  Len(segments) > 0 /\ SegEnd(segments[1]) < recycleThreshold

\* a recycled segment put where the last segment starts
RecycleOffsetAtStart(segments) == segments[Len(segments)].offset

\* where a recycled segment is put: recycled.reset(lastSegment.end)
RecycleOffset(segments) == SegEnd(segments[Len(segments)])

\* the recycling loop of update: every window it can end with, one per
\* outcome of pickNextTemplate() (Math.random) at each turn
RECURSIVE Recycle(_, _)
Recycle(segments, recycleThreshold) ==
  IF ShouldRecycle(segments, recycleThreshold)
  THEN UNION { Recycle(Tail(segments) \o <<NewSegment(t, RecycleOffset(segments))>>,
                       recycleThreshold) : t \in Templates }
  ELSE {segments}

\* update(dt, player): every level it can end with
LevelUpdate(lv, dt, speedMultiplier) ==
  LET moved == Advance(lv, dt, speedMultiplier)
      recycleThreshold == moved.scrollX - moved.recycleMargin
  IN  { [moved EXCEPT !.activeSegments = segs] :
          segs \in Recycle(moved.activeSegments, recycleThreshold) }

----------------------------------------------------------------------------
(* Level: the collision resolver *)

EntityRect(offset, e) ==
  [left |-> offset + e.x, right |-> offset + e.x + e.width,
   top |-> e.y, bottom |-> e.y + e.height]

\* #checkEntityOverlap
checkEntityOverlap(playerRect, offset, e) ==
  Intersects(playerRect, EntityRect(offset, e))

\* #checkOrbCollision
checkOrbCollision(playerRect, offset, e) ==
  CircleIntersectsRect(offset + e.x, e.y, e.radius, playerRect)

\* #checkSpikeCollision without its bounding-box test
checkSpikeCollisionUnboxed(playerRect, offset, e) ==
  LET rect == EntityRect(offset, e)
      a == Abs(2 * (RectCenterX(playerRect) - rect.left) - e.width)
      slope == a * (e.height \div YU) * (YU \div XU)
      widthPx == e.width \div XU
  IN  IF e.orientation = "up"
      THEN (rect.bottom - playerRect.bottom) * widthPx <= slope
      ELSE (playerRect.top - rect.top) * widthPx <= slope

\* #checkSpikeCollision.  With a = |2 (centerX - left) - width|, the height
\* |relativeX - 0.5| * height * 2 is a * height / width; the comparison is
\* multiplied through by the width and taken in px to stay within 32 bits.
checkSpikeCollision(playerRect, offset, e) ==
  LET rect == EntityRect(offset, e)
      a == Abs(2 * (RectCenterX(playerRect) - rect.left) - e.width)
      slope == a * (e.height \div YU) * (YU \div XU)
      widthPx == e.width \div XU
  IN  /\ Intersects(playerRect, rect)
      /\ IF e.orientation = "up"
         THEN (rect.bottom - playerRect.bottom) * widthPx <= slope
         ELSE (playerRect.top - rect.top) * widthPx <= slope

\* |velocity.y| * 0.02 px, in height units
LandingTolerance(p) == Abs(p.vy) * ((2 * YU) \div (100 * VU))

\* whether #resolvePlatform lands the player, and on which surface
PlatformLands(p, rect) ==
  /\ Intersects(getBounds(p), rect)
  /\ IF p.gravityDirection = 1
     THEN previousBottom(p) <= rect.top + LandingTolerance(p)
          /\ getBounds(p).bottom >= rect.top
     ELSE previousTop(p) >= rect.bottom - LandingTolerance(p)
          /\ getBounds(p).top <= rect.bottom
PlatformSurface(p, rect) == IF p.gravityDirection = 1 THEN rect.top ELSE rect.bottom

\* #resolvePlatform
resolvePlatform(p, e, offset) ==
  IF PlatformLands(p, EntityRect(offset, e))
  THEN land(p, PlatformSurface(p, EntityRect(offset, e)))
  ELSE p

\* the cooldown a triggered booster, orb, portal is given
BoosterCooldown(e) ==
  (IF e.cooldown # 0 THEN e.cooldown ELSE e.duration) + TPS \div 5

\* a first clamp that needs the boundary crossed
PreClampLandsBeyond(p) ==
  IF p.gravityDirection = 1 THEN getBounds(p).bottom > FLOOR_Y
                            ELSE getBounds(p).top < CEILING_Y

\* step 1 of resolvePlayer: the floor under gravity +1, the ceiling under -1
PreClampLands(p) ==
  IF p.gravityDirection = 1 THEN getBounds(p).bottom >= FLOOR_Y
                            ELSE getBounds(p).top <= CEILING_Y
Boundary(p) == IF p.gravityDirection = 1 THEN FLOOR_Y ELSE CEILING_Y
BoundaryName(p) == IF p.gravityDirection = 1 THEN "floor" ELSE "ceiling"
PreClamp(p) == IF PreClampLands(p) THEN land(p, Boundary(p)) ELSE p

\* step 4 of resolvePlayer: a grounded player is put back on the boundary
PostClampLands(p) ==
  \/ p.isGrounded /\ p.gravityDirection = 1 /\ getBounds(p).bottom > FLOOR_Y
  \/ p.isGrounded /\ p.gravityDirection = -1 /\ getBounds(p).top < CEILING_Y
PostClamp(p) == IF PostClampLands(p) THEN land(p, Boundary(p)) ELSE p

\* A resolution in progress: the player, the segments (for the cooldowns),
\* whether a spike has ended it, and what has happened so far (observation):
\* the surface last landed on, an orb jump, a gravity flip.
ResolveStart(p, segments) ==
  [p |-> PreClamp(p), segments |-> segments, done |-> FALSE,
   landedOn |-> IF PreClampLands(p) THEN BoundaryName(p) ELSE "none",
   orb |-> FALSE, flipped |-> FALSE]

\* the body of the entity loop, after entity.updateCooldown(dt): e the
\* entity's template, cd its cooldown, rect the player's bounds
EntityEffect(st, si, ei, e, offset, cd, rect, intent) ==
  CASE e.type = "platform" ->
         IF PlatformLands(st.p, EntityRect(offset, e))
         THEN [st EXCEPT !.p = resolvePlatform(st.p, e, offset),
                         !.landedOn = "platform"]
         ELSE st
    [] e.type = "spike" ->
         IF checkSpikeCollision(rect, offset, e)
         THEN [st EXCEPT !.p = die(st.p), !.done = TRUE]
         ELSE st
    [] e.type = "booster" ->
         IF checkEntityOverlap(rect, offset, e) /\ cd = 0
         THEN [st EXCEPT
                 !.p = applyBoost(st.p, e.multiplier, e.duration, e.gravityScale),
                 !.segments[si].cooldowns[ei] = BoosterCooldown(e)]
         ELSE st
    [] e.type = "orb" ->
         IF cd = 0 /\ checkOrbCollision(rect, offset, e) /\ intent
         THEN [st EXCEPT
                 !.p = performOrbJump(st.p, e.power),
                 !.segments[si].cooldowns[ei] = e.cooldown,
                 !.orb = TRUE, !.landedOn = "none"]
         ELSE st
    [] e.type = "portal" ->
         IF checkEntityOverlap(rect, offset, e) /\ cd = 0
         THEN [st EXCEPT
                 !.p = flipGravity(st.p, e.gravity),
                 !.segments[si].cooldowns[ei] = e.cooldown,
                 !.flipped = (e.gravity # st.p.gravityDirection) \/ @,
                 !.landedOn = IF e.gravity # st.p.gravityDirection
                              THEN "none" ELSE @]
         ELSE st
    [] OTHER -> st

\* entity.updateCooldown(dt) for entity ei of segment si
Cooled(st, si, ei, dt) ==
  IF st.segments[si].cooldowns[ei] > 0
  THEN [st EXCEPT !.segments[si].cooldowns[ei] = updateCooldown(@, dt)]
  ELSE st

ResolveEntity(st, si, ei, intent, dt) ==
  EntityEffect(Cooled(st, si, ei, dt), si, ei,
               SEGMENT_LIBRARY[st.segments[si].template].entities[ei],
               st.segments[si].offset,
               updateCooldown(st.segments[si].cooldowns[ei], dt),
               getBounds(st.p), intent)

RECURSIVE ResolveEntities(_, _, _, _, _)
ResolveEntities(st, si, ei, intent, dt) ==
  IF st.done \/ ei > Len(st.segments[si].cooldowns) THEN st
  ELSE ResolveEntities(ResolveEntity(st, si, ei, intent, dt), si, ei + 1, intent, dt)

\* the segment loop: a segment outside the padded window is skipped
SegmentVisible(lv, seg) ==
  ~(SegEnd(seg) < lv.scrollX - lv.recycleMargin
    \/ seg.offset > lv.scrollX + lv.viewportWorldWidth + lv.recycleMargin)

RECURSIVE ResolveSegments(_, _, _, _, _)
ResolveSegments(st, lv, si, intent, dt) ==
  IF st.done \/ si > Len(st.segments) THEN st
  ELSE IF SegmentVisible(lv, st.segments[si])
       THEN ResolveSegments(ResolveEntities(st, si, 1, intent, dt), lv, si + 1, intent, dt)
       ELSE ResolveSegments(st, lv, si + 1, intent, dt)

\* resolvePlayer(player, input, dt): the resolution when it returns.  A spike
\* returns from inside the loop, before step 4.
resolvePlayer(p, lv, intent, dt) ==
  LET st == ResolveSegments(ResolveStart(p, lv.activeSegments), lv, 1, intent, dt)
  IN  IF st.done THEN st
      ELSE [st EXCEPT !.p = PostClamp(st.p),
                      !.landedOn = IF PostClampLands(st.p) THEN BoundaryName(st.p)
                                   ELSE @]

----------------------------------------------------------------------------
(* Hud.  distance is scrollX / 10, kept in units of 1/(10 XU) so that the   *)
(* division is exact.  bestDistance and bestTime, which only draw() reads,  *)
(* are not modelled.                                                        *)

HudNew == [attempt |-> 1, distance |-> 0, runTime |-> 0]
HudReset(h, attempt) == [h EXCEPT !.attempt = attempt, !.distance = 0, !.runTime = 0]
HudUpdate(h, scrollX, dt) == [h EXCEPT !.distance = scrollX, !.runTime = @ + dt]

----------------------------------------------------------------------------
(* Bounds of the model *)

MaxScroll      == 660      \* px: a run under keyboard input steps up to here
MaxScrollLoop  == 260      \* px: the same, for the game with all its handlers
MaxScrollLevel == 4200     \* px: the same, for the level taken alone
MaxAttempts    == 2        \* simulation steps are taken in attempts 1 .. MaxAttempts
MaxQueue       == 2        \* jump presses queued between two steps
MaxLoops       == 2        \* requestAnimationFrame chains alive at once
MaxCalls       == 2        \* calls of start() and stop() after the bootstrap

\* refresh intervals of the display, in ticks: 60 Hz and 30 Hz
RefreshIntervals == {5, 10}
\* world widths handed to setViewport (innerWidth * 720 / innerHeight), px
GameViewports  == {1280}
LevelViewports == {400, 1280, 2000}
\* speed multipliers of the player handed to Level.update taken alone
LevelMultipliers == {100, 135}

\* observation horizons
AgeCap == jumpBufferTime + 2 * MAX_DELTA_TIME
AirCap == coyoteTime + 2 * MAX_DELTA_TIME

----------------------------------------------------------------------------
(* Game *)

\* a delta time without the upper clamp
DeltaTimeUnclamped(delta) == delta

\* Math.min(MAX_DELTA_TIME, (timestamp - lastTimestamp) / 1000 || 0), the
\* difference of the two timestamps given in ticks
DeltaTime(delta) == Min(MAX_DELTA_TIME, delta)

\* timestamp - lastTimestamp for the frame callback about to run: the
\* refresh interval; where the behaviour has them, one of its irregular
\* differences (env.stalls) or, until a reset run has integrated any time,
\* one of those a first callback can show after reset() has read
\* performance.now() (env.early)
FrameDeltas ==
  {env.refresh}
    \cup (IF "stalls" \in DOMAIN env THEN env.stalls ELSE {})
    \cup (IF "early" \in DOMAIN env /\ hud.runTime = 0 THEN env.early ELSE {})

Window(segments) ==
  [i \in 1 .. Len(segments) |->
     [template |-> segments[i].template, offset |-> segments[i].offset]]

(* Observations.  op: the last operation.  Of the last frame callback: dt,  *)
(* restartAtFrame and runningAtFrame (restartRequested and isRunning as it  *)
(* began).  Of the last simulation step: queueAtStep (jumpQueue as it       *)
(* began), jump (the jump it ended with), landedOn (the surface land() was  *)
(* last called for, "none" after an orb jump or a flip), before (the        *)
(* window before Level.update).  History: pressAge, the simulated time from *)
(* the start of the step that consumed the latest jump request to the end   *)
(* of the last step, -1 once that request is honoured, dropped or older     *)
(* than AgeCap; support, the surface the player last rested on and has not *)
(* jumped or been flipped off; airTime, the simulated time since land()     *)
(* was last called; leftFor, the airTime with which the last step began if  *)
(* it consumed a jump request with a platform for support, else -1;         *)
(* stopped, stop() was called and start() not since; calls, the calls of    *)
(* start() and stop().                                                      *)
ObsInit ==
  [op |-> "init", dt |-> 0, restartAtFrame |-> FALSE, runningAtFrame |-> FALSE,
   queueAtStep |-> 0, pressAge |-> -1, jump |-> "none", landedOn |-> "none",
   support |-> "none", airTime |-> AirCap, leftFor |-> -1, before |-> <<>>,
   stopped |-> FALSE, calls |-> 0]

\* what reset() does to the observations: the buffered press is dropped
ObsReset(o, op) ==
  [o EXCEPT !.op = op, !.pressAge = -1, !.jump = "none", !.landedOn = "none",
            !.support = "none", !.airTime = AirCap, !.leftFor = -1,
            !.before = <<>>]

\* Game.reset(): level.reset(), player.reset() and the spawn position,
\* hud.reset(attempt); isRunning is set by the caller's action
ResetLevel  == LevelReset(level)
ResetPlayer == [PlayerReset(player) EXCEPT !.x = anchorX, !.y = FLOOR_Y - halfSize]
ResetHud(attempt) == HudReset(hud, attempt)

\* the state after  new Game(canvas, assets); game.start()  of the
\* DOMContentLoaded handler: the constructor has reset the run, start() has
\* scheduled the first frame
InitObjects ==
  /\ input = InputInit
  /\ player = [PlayerReset(PlayerNew) EXCEPT !.x = anchorX, !.y = FLOOR_Y - halfSize]
  /\ \E w \in GameViewports : level = LevelReset(setViewport(LevelNew, w * XU))
  /\ hud = HudReset(HudNew, 1)
  /\ game = [isRunning |-> TRUE, attempt |-> 1, loops |-> 1,
             animationFrame |-> TRUE, timers |-> 0]
  /\ obs = ObsInit

\* the same on a display of one of the refresh intervals
InitGame ==
  /\ env \in [refresh : RefreshIntervals]
  /\ InitObjects

(* Input events.  An event that changes nothing in the manager is a       *)
(* stuttering step.                                                       *)
InputEvent(after) ==
  /\ after # input
  /\ after.jumpQueue <= MaxQueue
  /\ input' = after
  /\ obs' = [obs EXCEPT !.op = "input"]
  /\ UNCHANGED <<player, level, hud, game, env>>

KeyDownJump   == InputEvent(OnKeyDownJump(input))
KeyUpJump     == InputEvent(OnKeyUpJump(input))
KeyDownR      == InputEvent(OnKeyDownR(input))
PointerDown   == InputEvent(OnPointerDown(input))
PointerUp     == InputEvent(OnPointerUp(input))
PointerCancel == InputEvent(OnPointerUp(input))

(* A frame callback: loop(timestamp) of start().  It schedules the next   *)
(* frame, recording its handle in animationFrame, and calls update and    *)
(* render; render changes nothing.                                         *)
FrameObs(op, dt) ==
  [obs EXCEPT !.op = op, !.dt = dt, !.restartAtFrame = input.restartRequested,
              !.runningAtFrame = game.isRunning]

\* update(timestamp) when isRunning is false
UpdateIdle ==
  /\ ~game.isRunning
  /\ \E delta \in FrameDeltas : obs' = FrameObs("idle", DeltaTime(delta))
  /\ game' = [game EXCEPT !.animationFrame = TRUE]
  /\ UNCHANGED <<input, player, level, hud, env>>

FrameIdle == game.loops > 0 /\ UpdateIdle

\* update(timestamp) when a restart is requested
FrameRestart ==
  /\ game.loops > 0
  /\ game.isRunning
  /\ input.restartRequested
  /\ game.attempt <= MaxAttempts
  /\ input' = ConsumeRestartRequest(input)
  /\ game' = [game EXCEPT !.animationFrame = TRUE, !.attempt = @ + 1,
                          !.isRunning = TRUE]
  /\ level' = ResetLevel
  /\ player' = ResetPlayer
  /\ hud' = ResetHud(game.attempt + 1)
  /\ \E delta \in FrameDeltas :
       obs' = ObsReset(FrameObs("restart", DeltaTime(delta)), "restart")
  /\ UNCHANGED env

\* the observations after a simulation step
StepObs(dt, res, jumped) ==
  [FrameObs("step", dt) EXCEPT
     !.queueAtStep = input.jumpQueue,
     !.pressAge = IF ConsumeJumpResult(input) THEN dt
                  ELSE IF obs.pressAge < 0 \/ obs.jump = "normal"
                          \/ obs.pressAge + dt > AgeCap THEN -1
                  ELSE obs.pressAge + dt,
     !.jump = IF jumped THEN "normal" ELSE IF res.orb THEN "orb" ELSE "none",
     !.landedOn = res.landedOn,
     !.support = IF jumped THEN "none"
                 ELSE IF res.landedOn # "none" THEN res.landedOn
                 ELSE IF res.orb \/ res.flipped THEN "none" ELSE obs.support,
     !.airTime = IF res.landedOn # "none" THEN 0 ELSE Min(obs.airTime + dt, AirCap),
     !.leftFor = IF ConsumeJumpResult(input) /\ obs.support = "platform"
                 THEN obs.airTime ELSE -1,
     !.before = Window(level.activeSegments)]

\* a death that schedules the reset and leaves the run going
AfterStepStillRunning(g, p) ==
  IF ~p.isAlive THEN [g EXCEPT !.attempt = @ + 1, !.timers = @ + 1] ELSE g

\* a death that stops the run and schedules nothing
AfterStepNoTimer(g, p) ==
  IF ~p.isAlive THEN [g EXCEPT !.attempt = @ + 1, !.isRunning = FALSE] ELSE g

\* the end of update(timestamp): the death of the player stops the run and
\* schedules reset() 600 ms later
AfterStep(g, p) ==
  IF ~p.isAlive
  THEN [g EXCEPT !.attempt = @ + 1, !.isRunning = FALSE, !.timers = @ + 1]
  ELSE g

\* update(timestamp) when the run advances: one simulation step
UpdateStep(dt) ==
  \* player.update(deltaTime, input); player.position.x = scrollX + anchorX
  \E p \in {[PlayerUpdate(player, dt, player.isAlive /\ ConsumeJumpResult(input))
               EXCEPT !.x = level.scrollX + anchorX]} :
  \E inp \in {IF player.isAlive THEN ConsumeJumpRequest(input) ELSE input} :
  \* level.update(deltaTime, player)
  \E lv \in LevelUpdate(level, dt, p.speedMultiplier) :
  \* level.resolvePlayer(player, input, deltaTime)
  \E res \in {resolvePlayer(p, lv, didPressJumpThisFrame(inp) \/ isJumpHeld(inp), dt)} :
    \* player.postResolve(); hud.update(distance, deltaTime)
    /\ player' = postResolve(res.p)
    /\ level' = [lv EXCEPT !.activeSegments = res.segments]
    /\ hud' = HudUpdate(hud, lv.scrollX, dt)
    /\ game' = AfterStep([game EXCEPT !.animationFrame = TRUE], res.p)
    /\ input' = finalizeFrame(inp)
    /\ obs' = StepObs(dt, res, JumpDue(res.p))

FrameStep(maxScroll) ==
  /\ game.loops > 0
  /\ game.isRunning
  /\ ~input.restartRequested
  /\ game.attempt <= MaxAttempts
  /\ level.scrollX < maxScroll * XU
  /\ \E delta \in FrameDeltas : UpdateStep(DeltaTime(delta))
  /\ UNCHANGED env

\* the callback of setTimeout(() => this.reset(), 600)
ResetTimer ==
  /\ game.timers > 0
  /\ game' = [game EXCEPT !.timers = @ - 1, !.isRunning = TRUE]
  /\ level' = ResetLevel
  /\ player' = ResetPlayer
  /\ hud' = ResetHud(game.attempt)
  /\ obs' = ObsReset(obs, "timer")
  /\ UNCHANGED <<input, env>>

\* start()
Start ==
  /\ obs.calls < MaxCalls
  /\ game.loops < MaxLoops
  /\ game' = [game EXCEPT !.loops = @ + 1, !.animationFrame = TRUE,
                          !.isRunning = TRUE]
  /\ level' = IF game.isRunning THEN level ELSE ResetLevel
  /\ player' = IF game.isRunning THEN player ELSE ResetPlayer
  /\ hud' = IF game.isRunning THEN hud ELSE ResetHud(game.attempt)
  /\ obs' = [(IF game.isRunning THEN [obs EXCEPT !.op = "start"]
              ELSE ObsReset(obs, "start"))
               EXCEPT !.stopped = FALSE, !.calls = @ + 1]
  /\ UNCHANGED <<input, env>>

\* stop(): the frame animationFrame names is cancelled
Stop ==
  /\ obs.calls < MaxCalls
  /\ game' = [game EXCEPT
                !.loops = IF game.animationFrame THEN @ - 1 ELSE @,
                !.animationFrame = FALSE, !.isRunning = FALSE]
  /\ obs' = [obs EXCEPT !.op = "stop", !.stopped = TRUE, !.calls = @ + 1]
  /\ UNCHANGED <<input, player, level, hud, env>>

\* The game as the page runs it: frames, input events, the reset timer.
Next ==
  \/ FrameIdle \/ FrameRestart \/ FrameStep(MaxScrollLoop)
  \/ KeyDownJump \/ KeyUpJump \/ KeyDownR
  \/ PointerDown \/ PointerUp \/ PointerCancel
  \/ ResetTimer

Spec == InitGame /\ [][Next]_vars

\* One attempt under the keyboard, up to the player's death.
NextPlay == FrameStep(MaxScroll) \/ KeyDownJump \/ KeyUpJump

SpecPlay == InitGame /\ [][NextPlay]_vars

\* The game under an irregular clock: frames that come late (stalls of
\* 0 and 20 ticks between two callbacks) and a first callback after reset()
\* whose timestamp is a tick older than the performance.now() reset() read.
\* R restarts the run; the steps stop short of the first obstacle.
MaxScrollClock == 30    \* px: a run under the irregular clock steps up to here

ClockIntervals == {5}
ClockStalls    == {0, 2 * MAX_DELTA_TIME}
ClockEarly     == {-1}

InitClock ==
  /\ env \in [refresh : ClockIntervals, stalls : {ClockStalls},
               early : {ClockEarly}]
  /\ InitObjects

NextClock == FrameStep(MaxScrollClock) \/ FrameRestart \/ KeyDownR

SpecClock == InitClock /\ [][NextClock]_vars

\* The input manager alone, under the events of a keyboard and one pointer.
\* A keydown comes for a key that is up or, repeated, for one that is down;
\* a keyup for a key that is down; a pointerdown for a pointer that is up;
\* a pointerup or a pointercancel for a pointer that is down.
MaxEvents == 4     \* events delivered in a behaviour

JUMP_KEYS == {"Space", "ArrowUp", "KeyW", "KeyZ"}

(* Observations: op, the last event; keysDown, the jump keys now down;    *)
(* pointerDown, the pointer is now down; events, the events so far.       *)
InitKeys ==
  /\ env \in [refresh : RefreshIntervals]
  /\ input = InputInit
  /\ player = PlayerReset(PlayerNew)
  /\ level = LevelReset(LevelNew)
  /\ hud = HudNew
  /\ game = [isRunning |-> FALSE, attempt |-> 1, loops |-> 0,
             animationFrame |-> FALSE, timers |-> 0]
  /\ obs = [op |-> "init", keysDown |-> {}, pointerDown |-> FALSE,
            events |-> 0]

KeysEvent(op, after, keys, pointer) ==
  /\ obs.events < MaxEvents
  /\ input' = after
  /\ obs' = [op |-> op, keysDown |-> keys, pointerDown |-> pointer,
             events |-> obs.events + 1]
  /\ UNCHANGED <<player, level, hud, game, env>>

KeysKeyDown ==
  /\ obs.events < MaxEvents
  /\ \E k \in JUMP_KEYS :
       KeysEvent("keydown", OnKeyDownJump(input), obs.keysDown \cup {k},
                 obs.pointerDown)

KeysKeyUp ==
  \E k \in obs.keysDown :
    KeysEvent("keyup", OnKeyUpJump(input), obs.keysDown \ {k}, obs.pointerDown)

KeysPointerDown ==
  /\ ~obs.pointerDown
  /\ KeysEvent("pointerdown", OnPointerDown(input), obs.keysDown, TRUE)

KeysPointerUp ==
  /\ obs.pointerDown
  /\ KeysEvent("pointerup", OnPointerUp(input), obs.keysDown, FALSE)

KeysPointerCancel ==
  /\ obs.pointerDown
  /\ KeysEvent("pointercancel", OnPointerUp(input), obs.keysDown, FALSE)

NextKeys ==
  \/ KeysKeyDown \/ KeysKeyUp
  \/ KeysPointerDown \/ KeysPointerUp \/ KeysPointerCancel

SpecKeys == InitKeys /\ [][NextKeys]_vars

\* The orb case of resolvePlayer's entity loop on its own: an orb of the
\* first window, the player put at positions around it under either gravity,
\* with and without jump intent; the orb's cooldown runs from one resolution
\* to the next.
OrbSlots ==
  { sl \in (1 .. SegmentCount) \X (1 .. 9) :
      /\ sl[2] <= Len(SEGMENT_LIBRARY[InitialSegments(0, 0)[sl[1]].template].entities)
      /\ SEGMENT_LIBRARY[InitialSegments(0, 0)[sl[1]].template].entities[sl[2]].type
           = "orb" }

\* the orb of a slot and the abscissa and height of its centre
OrbOf(lv, sl) == SEGMENT_LIBRARY[lv.activeSegments[sl[1]].template].entities[sl[2]]
OrbX(lv, sl) == lv.activeSegments[sl[1]].offset + OrbOf(lv, sl).x
OrbCooldown(lv, sl) == lv.activeSegments[sl[1]].cooldowns[sl[2]]

\* distances of the player's centre from the orb's, in px: centred, the
\* hitbox touching the circle, and one px further
OrbReach(e) == e.radius \div YU + PLAYER_SIZE \div 2
OrbShifts(e) == {-(OrbReach(e) + 1), -OrbReach(e), 0, OrbReach(e), OrbReach(e) + 1}
OrbDrops(e)  == {0, OrbReach(e), OrbReach(e) + 1}

(* Observations: op, the last operation; slot, the orb; intent and dt, the *)
(* arguments of the last resolution; before, the player and the orb's      *)
(* cooldown as it began.                                                   *)
InitOrb ==
  /\ env \in [refresh : RefreshIntervals]
  /\ input = InputInit
  /\ \E g \in {1, -1} :
       player = [PlayerReset(PlayerNew) EXCEPT !.gravityDirection = g]
  /\ level = LevelReset(LevelNew)
  /\ hud = HudNew
  /\ game = [isRunning |-> FALSE, attempt |-> 1, loops |-> 0,
             animationFrame |-> FALSE, timers |-> 0]
  /\ \E sl \in OrbSlots :
       obs = [op |-> "reset", slot |-> sl, intent |-> FALSE, dt |-> 0,
              before |-> <<>>]

OrbResolve ==
  /\ \E dx \in OrbShifts(OrbOf(level, obs.slot)),
         dy \in OrbDrops(OrbOf(level, obs.slot)),
         intent \in BOOLEAN, grounded \in BOOLEAN :
     \E p \in {[player EXCEPT !.x = OrbX(level, obs.slot) + dx * XU,
                               !.y = OrbOf(level, obs.slot).y + dy * YU,
                               !.isGrounded = grounded]} :
     \E st \in {ResolveEntity([p |-> p, segments |-> level.activeSegments,
                                done |-> FALSE, landedOn |-> "none",
                                orb |-> FALSE, flipped |-> FALSE],
                               obs.slot[1], obs.slot[2], intent,
                               DeltaTime(env.refresh))} :
       /\ player' = st.p
       /\ level' = [level EXCEPT !.activeSegments = st.segments]
       /\ obs' = [obs EXCEPT
                    !.op = "orb", !.intent = intent,
                    !.dt = DeltaTime(env.refresh),
                    !.before = <<[p |-> p,
                                  cooldown |-> OrbCooldown(level, obs.slot)]>>]
  /\ UNCHANGED <<input, hud, game, env>>

NextOrb == OrbResolve

SpecOrb == InitOrb /\ [][NextOrb]_vars

\* The game driven through start() and stop() as well, R the only key.
NextApi ==
  \/ FrameIdle \/ FrameRestart \/ FrameStep(MaxScrollLoop)
  \/ KeyDownR \/ ResetTimer \/ Start \/ Stop

SpecApi == InitGame /\ [][NextApi]_vars

\* A timer that is set fires.
FairSpec == SpecApi /\ WF_vars(ResetTimer)

\* One attempt under the keyboard through the whole first segment, the
\* first callbacks free to repeat the timestamp of the reset.
MaxScrollRun == 900    \* px: the run steps up to here

RunIntervals == {10}

InitRun ==
  /\ env \in [refresh : RunIntervals, early : {{0}}]
  /\ InitObjects

NextRun == FrameStep(MaxScrollRun) \/ KeyDownJump \/ KeyUpJump

SpecRun == InitRun /\ [][NextRun]_vars

\* Attempts under the keyboard through the first booster, its boost and the
\* boost's end, with deaths, the reset timer and restarts by R.
MaxScrollAttempts == 640    \* px: an attempt steps up to here

NextAttempts ==
  \/ FrameStep(MaxScrollAttempts) \/ FrameIdle \/ FrameRestart
  \/ KeyDownJump \/ KeyUpJump \/ KeyDownR
  \/ ResetTimer

SpecAttempts == InitRun /\ [][NextAttempts]_vars

----------------------------------------------------------------------------
(* The level taken alone: setViewport, reset and update called on a Level  *)
(* with a player whose speed multiplier is fixed.                          *)

InitLevel ==
  /\ env \in [refresh : RefreshIntervals]
  /\ input = InputInit
  /\ \E m \in LevelMultipliers : player = [PlayerNew EXCEPT !.speedMultiplier = m]
  /\ \E w \in LevelViewports : level = LevelReset(setViewport(LevelNew, w * XU))
  /\ hud = HudNew
  /\ game = [isRunning |-> FALSE, attempt |-> 1, loops |-> 0,
             animationFrame |-> FALSE, timers |-> 0]
  /\ obs = [ObsInit EXCEPT !.op = "reset"]

LevelStep ==
  /\ level.scrollX < MaxScrollLevel * XU
  /\ level' \in LevelUpdate(level, DeltaTime(env.refresh), player.speedMultiplier)
  /\ obs' = [obs EXCEPT !.op = "update", !.dt = DeltaTime(env.refresh),
                        !.before = Window(level.activeSegments)]
  /\ UNCHANGED <<input, player, hud, game, env>>

LevelResize ==
  /\ \E w \in LevelViewports : level' = setViewport(level, w * XU)
  /\ level' # level
  /\ obs' = [obs EXCEPT !.op = "resize"]
  /\ UNCHANGED <<input, player, hud, game, env>>

LevelRestart ==
  /\ level' = LevelReset(level)
  /\ level' # level
  /\ obs' = [obs EXCEPT !.op = "reset", !.before = <<>>]
  /\ UNCHANGED <<input, player, hud, game, env>>

NextLevel == LevelStep \/ LevelResize \/ LevelRestart

SpecLevel == InitLevel /\ [][NextLevel]_vars

----------------------------------------------------------------------------
(* The player's boost taken alone: applyBoost and update called on a       *)
(* Player, as the resolver and the game call them.                         *)

MaxBoosts    == 2      \* calls of applyBoost in a behaviour
MaxBoostTime == 380    \* ticks of simulated time integrated in a behaviour

\* step sizes of the behaviours, in ticks: 7/300 s and 1/30 s
BoostIntervals == {7, 10}

\* the arguments resolvePlayer hands to applyBoost: those of the boosters of
\* the library
LibraryEntities ==
  UNION { { SEGMENT_LIBRARY[t].entities[i] :
              i \in DOMAIN SEGMENT_LIBRARY[t].entities } : t \in Templates }

Boosts ==
  { [multiplier |-> e.multiplier, duration |-> e.duration,
     gravityScale |-> e.gravityScale] :
      e \in { x \in LibraryEntities : x.type = "booster" } }

(* Observations: op, the last operation; boosts, the boosts applied so far *)
(* in order; sinceBoost, the simulated time integrated since the last of   *)
(* them; elapsed, since the start; before, the player before the last      *)
(* boost, and beforePair, before the one that preceded it if no update     *)
(* came between the two (else <<>>).                                       *)
InitBoost ==
  /\ env \in [refresh : BoostIntervals]
  /\ input = InputInit
  /\ player = PlayerReset(PlayerNew)
  /\ level = LevelReset(LevelNew)
  /\ hud = HudNew
  /\ game = [isRunning |-> FALSE, attempt |-> 1, loops |-> 0,
             animationFrame |-> FALSE, timers |-> 0]
  /\ obs = [op |-> "reset", boosts |-> <<>>, sinceBoost |-> 0, elapsed |-> 0,
            before |-> <<>>, beforePair |-> <<>>]

BoostApply ==
  /\ Len(obs.boosts) < MaxBoosts
  /\ \E b \in Boosts :
       /\ player' = applyBoost(player, b.multiplier, b.duration, b.gravityScale)
       /\ obs' = [obs EXCEPT !.op = "boost", !.boosts = Append(@, b),
                             !.sinceBoost = 0, !.before = <<player>>,
                             !.beforePair = IF obs.op = "boost" THEN obs.before
                                            ELSE <<>>]
  /\ UNCHANGED <<input, level, hud, game, env>>

\* player.update(dt, input) with no jump requested, from the first boost on
BoostUpdate ==
  /\ obs.boosts # <<>>
  /\ obs.elapsed < MaxBoostTime
  /\ player' = PlayerUpdate(player, DeltaTime(env.refresh), FALSE)
  /\ obs' = [obs EXCEPT !.op = "update",
                        !.sinceBoost = @ + DeltaTime(env.refresh),
                        !.elapsed = @ + DeltaTime(env.refresh)]
  /\ UNCHANGED <<input, level, hud, game, env>>

NextBoost == BoostApply \/ BoostUpdate

SpecBoost == InitBoost /\ [][NextBoost]_vars

----------------------------------------------------------------------------
(* The player's landing taken alone: land, flipGravity and update called   *)
(* on a Player with the surfaces the resolver lands it on.                 *)

MaxPlayerOps == 3      \* calls made on the player in a behaviour

\* the arguments resolvePlayer and #resolvePlatform hand to land: the floor,
\* the ceiling, the top and the bottom of every platform of the library
Surfaces ==
  {FLOOR_Y, CEILING_Y}
    \cup { e.y : e \in { x \in LibraryEntities : x.type = "platform" } }
    \cup { e.y + e.height : e \in { x \in LibraryEntities : x.type = "platform" } }

(* Observations: op, the last operation; surface, the argument of the last *)
(* land; before, the player before it; ops, the calls made so far.         *)
InitLanding ==
  /\ env \in [refresh : RefreshIntervals]
  /\ input = InputInit
  /\ player = PlayerReset(PlayerNew)
  /\ level = LevelReset(LevelNew)
  /\ hud = HudNew
  /\ game = [isRunning |-> FALSE, attempt |-> 1, loops |-> 0,
             animationFrame |-> FALSE, timers |-> 0]
  /\ obs = [op |-> "reset", surface |-> 0, before |-> <<>>, ops |-> 0]

LandingLand ==
  /\ obs.ops < MaxPlayerOps
  /\ \E s \in Surfaces :
       /\ player' = land(player, s)
       /\ obs' = [op |-> "land", surface |-> s, before |-> <<player>>,
                  ops |-> obs.ops + 1]
  /\ UNCHANGED <<input, level, hud, game, env>>

LandingFlip ==
  /\ obs.ops < MaxPlayerOps
  /\ player' = flipGravity(player, -player.gravityDirection)
  /\ obs' = [obs EXCEPT !.op = "flip", !.ops = @ + 1]
  /\ UNCHANGED <<input, level, hud, game, env>>

LandingUpdate ==
  /\ obs.ops < MaxPlayerOps
  /\ player' = PlayerUpdate(player, DeltaTime(env.refresh), FALSE)
  /\ obs' = [obs EXCEPT !.op = "update", !.ops = @ + 1]
  /\ UNCHANGED <<input, level, hud, game, env>>

NextLanding == LandingLand \/ LandingFlip \/ LandingUpdate

SpecLanding == InitLanding /\ [][NextLanding]_vars

----------------------------------------------------------------------------
(* #checkSpikeCollision on its own: a spike of the library at a segment     *)
(* offset, probed with the player's bounds at positions around it.          *)

MaxSpikeShift == 2     \* probe positions reach this many 32 px steps away
MaxProbes     == 2     \* probes made in a behaviour

SpikeShifts == {32 * k : k \in -MaxSpikeShift .. MaxSpikeShift} \cup {-1, 1}
SpikeDrops  == {32 * k : k \in -1 .. MaxSpikeShift} \cup {-1, 1}

Spikes == { x \in LibraryEntities : x.type = "spike" }

\* the offsets of the first two segments of a window
SpikeOffsets == {0, SEGMENT_LIBRARY[1].width}

(* Observations: op, the last operation; spike and offset, the arguments of *)
(* the probes; hit, the result of the last probe; before, the bounds and    *)
(* the result of the probe before it; probes, the probes made so far.       *)
InitSpike ==
  /\ env \in [refresh : RefreshIntervals]
  /\ input = InputInit
  /\ player = PlayerReset(PlayerNew)
  /\ level = LevelReset(LevelNew)
  /\ hud = HudNew
  /\ game = [isRunning |-> FALSE, attempt |-> 1, loops |-> 0,
             animationFrame |-> FALSE, timers |-> 0]
  /\ \E e \in Spikes, o \in SpikeOffsets :
       obs = [op |-> "reset", spike |-> e, offset |-> o, hit |-> FALSE,
              before |-> <<>>, probes |-> 0]

\* the player's centre dx px right of the spike's centre and the player's
\* bottom dy px below the spike's top
SpikeProbe ==
  /\ obs.probes < MaxProbes
  /\ \E dx \in SpikeShifts, dy \in SpikeDrops :
       /\ player' = [player EXCEPT
                       !.x = obs.offset + obs.spike.x + obs.spike.width \div 2
                               + dx * XU,
                       !.y = obs.spike.y + dy * YU - halfSize]
       /\ obs' = [obs EXCEPT
                    !.op = "probe",
                    !.probes = @ + 1,
                    !.hit = checkSpikeCollision(getBounds(player'), obs.offset,
                                                obs.spike),
                    !.before = IF obs.op = "probe"
                               THEN <<[bounds |-> getBounds(player),
                                       hit |-> obs.hit]>>
                               ELSE <<>>]
  /\ UNCHANGED <<input, level, hud, game, env>>

NextSpike == SpikeProbe

SpecSpike == InitSpike /\ [][NextSpike]_vars

----------------------------------------------------------------------------
(* Properties of the streaming window, under SpecLevel *)

SegmentsOf(window) == {window[i] : i \in DOMAIN window}

\* the segments of the window before the last update that the update recycled
RecycledSegments == SegmentsOf(obs.before) \ SegmentsOf(Window(level.activeSegments))

\* C1: after Level.reset and after every Level.update the window holds four
\* segments and each segment starts where the one before it ends.
SegmentWindowInvariant ==
  /\ Len(level.activeSegments) = SegmentCount
  /\ \A i \in 1 .. Len(level.activeSegments) - 1 :
       level.activeSegments[i + 1].offset = SegEnd(level.activeSegments[i])

\* an update has just recycled a segment, and not for the first time
WindowRecycled ==
  /\ obs.op = "update"
  /\ RecycledSegments # {}
  /\ obs.before[1].offset > 0

\* C2: a segment an update takes out of the window ends behind
\* scrollX - recycleMargin, scrollX that of the step; a segment ending at or
\* ahead of that threshold stays.
RecycledOnlyBehindThreshold ==
  obs.op = "update" =>
    \A seg \in SegmentsOf(obs.before) :
      /\ seg \in RecycledSegments =>
           SegEnd(seg) < level.scrollX - level.recycleMargin
      /\ SegEnd(seg) >= level.scrollX - level.recycleMargin =>
           seg \in SegmentsOf(Window(level.activeSegments))

\* an update has kept a front segment that ends exactly at the threshold, and
\* an earlier update has recycled
FrontSegmentAtThreshold ==
  /\ obs.op = "update"
  /\ SegEnd(level.activeSegments[1]) = level.scrollX - level.recycleMargin
  /\ level.activeSegments[1].offset > 0

----------------------------------------------------------------------------
(* Properties of one attempt, under SpecPlay *)

\* the step just taken ended on a surface, the player alive
LandingStep == obs.op = "step" /\ obs.landedOn # "none" /\ player.isAlive

\* the step just taken ended with the normal jump of postResolve
NormalJump ==
  /\ obs.jump = "normal"
  /\ player.vy = -jumpStrength * player.gravityDirection

\* C3: a jump press consumed by a step that starts at most jumpBufferTime
\* before the step in which the player lands triggers the normal jump in the
\* landing step.
JumpBufferedBeforeLanding ==
  LandingStep /\ obs.pressAge >= 0 /\ obs.pressAge - obs.dt <= jumpBufferTime
    => NormalJump

\* C4: a jump press consumed at most coyoteTime after the last step in which
\* the player rested on a platform ends that step with the normal jump.
CoyoteJump ==
  obs.op = "step" /\ obs.leftFor > 0 /\ obs.leftFor <= coyoteTime => NormalJump

\* a press consumed after the platform was left has given a normal jump
CoyoteJumped ==
  obs.op = "step" /\ obs.leftFor > 0 /\ obs.leftFor <= coyoteTime /\ NormalJump

\* C5: when resolvePlayer returns the player's hitbox is within the floor
\* and the ceiling.
WithinFloorAndCeiling ==
  obs.op = "step" =>
    getBounds(player).bottom <= FLOOR_Y /\ getBounds(player).top >= CEILING_Y

----------------------------------------------------------------------------
(* Properties of the game loop *)

FrameOps == {"idle", "restart", "step"}

\* the run as reset() leaves it
RunReset ==
  /\ level.scrollX = 0 /\ level.currentSpeed = baseSpeed
  /\ level.activeSegments = InitialSegments(0, 0)
  /\ player.isAlive /\ player.y = spawnY /\ player.vy = 0
  /\ player.gravityDirection = 1
  /\ hud.distance = 0 /\ hud.runTime = 0

\* C6: while the player is dead no frame callback changes the player, the
\* level (scrollX, segments, cooldowns) or the HUD, and isRunning stays
\* false.  Under Spec.
DeathHaltsSimulation ==
  [][~player.isAlive /\ obs'.op \in FrameOps
       => /\ UNCHANGED <<player, level, hud>>
          /\ ~game.isRunning /\ ~game'.isRunning]_vars

\* a frame callback has run during the delay that follows a death
FrameWhileDead == ~player.isAlive /\ obs.op = "idle"

\* C7: a death in attempt a leads to a running game in attempt a + 1, the
\* player alive at the spawn position under gravity +1, scrollX 0.  Under
\* FairSpec.
DeathRecovered ==
  \A a \in 1 .. MaxAttempts + 1 :
    (~player.isAlive /\ hud.attempt = a)
      ~> (/\ game.isRunning /\ player.isAlive
          /\ player.x = anchorX /\ player.y = spawnY
          /\ player.gravityDirection = 1 /\ level.scrollX = 0
          /\ game.attempt = a + 1 /\ hud.attempt = a + 1)

\* the timer has reset the run after the death that ended attempt 1
RecoveredByTimer ==
  /\ obs.op = "timer" /\ game.isRunning /\ player.isAlive
  /\ game.attempt = 2 /\ hud.attempt = 2 /\ game.timers = 0

\* C8: a step leaves the jump queue empty however many presses it found, the
\* buffer it sets is one jumpBufferTime at most, and a step that finds no
\* press sets none.  Under Spec.
JumpRequestsDoNotStack ==
  [][obs'.op = "step"
       => /\ input'.jumpQueue = 0
          /\ player'.jumpBuffer <= jumpBufferTime
          /\ input.jumpQueue = 0 => player'.jumpBuffer <= player.jumpBuffer]_vars

\* a step has found two presses queued and left one buffered jump
TwoPressesOneJump ==
  /\ obs.op = "step" /\ obs.queueAtStep >= 2
  /\ input.jumpQueue = 0 /\ player.jumpBuffer > 0

\* C9: after stop() no frame callback runs until start() is called.  Under
\* SpecApi.
StoppedRunsNoFrame == obs.stopped => obs.op \notin FrameOps

\* C10: a frame callback that finds a restart requested resets the run and
\* clears the request, in any state of the game.  Under Spec.
RestartImmediate ==
  obs.op \in FrameOps /\ obs.restartAtFrame
    => obs.op = "restart" /\ ~input.restartRequested /\ RunReset

----------------------------------------------------------------------------
(* Properties of the boost, under SpecBoost *)

LastBoost == obs.boosts[Len(obs.boosts)]
BoostBeforeLast == obs.boosts[Len(obs.boosts) - 1]

\* C11: a boost never lowers speedMultiplier or boostTimer and leaves them
\* at least its own multiplier and duration; of two boosts with no update
\* between them, in either order, both are left at least the larger.
BoostStacking ==
  obs.op = "boost" =>
    /\ player.speedMultiplier >= Max(LastBoost.multiplier, obs.before[1].speedMultiplier)
    /\ player.boostTimer >= Max(LastBoost.duration, obs.before[1].boostTimer)
    /\ obs.beforePair # <<>> =>
         /\ player.speedMultiplier >=
              Max(Max(LastBoost.multiplier, BoostBeforeLast.multiplier),
                  obs.beforePair[1].speedMultiplier)
         /\ player.boostTimer >=
              Max(Max(LastBoost.duration, BoostBeforeLast.duration),
                  obs.beforePair[1].boostTimer)

\* the weaker and shorter of two boosts has been applied right after the other
WeakerBoostSecond ==
  /\ obs.op = "boost" /\ obs.beforePair # <<>>
  /\ LastBoost.multiplier < BoostBeforeLast.multiplier
  /\ LastBoost.duration < BoostBeforeLast.duration

----------------------------------------------------------------------------
(* Properties of the landing, under SpecLanding *)

\* C13: under either gravity direction and for every surface, land leaves
\* velocity.y 0, isGrounded true, coyoteTimer = coyoteTime and the player
\* resting on the surface: its centre halfSize above it under +1, halfSize
\* below it under -1.
LandingPostcondition ==
  obs.op = "land" =>
    /\ player.vy = 0 /\ player.isGrounded /\ player.coyoteTimer = coyoteTime
    /\ player.gravityDirection = obs.before[1].gravityDirection
    /\ player.gravityDirection = 1 => player.y = obs.surface - halfSize
    /\ player.gravityDirection = -1 => player.y = obs.surface + halfSize

\* a player moving under gravity -1 has landed below a platform
LandedUnderPlatform ==
  /\ obs.op = "land" /\ player.gravityDirection = -1
  /\ obs.before[1].vy # 0 /\ ~obs.before[1].isGrounded
  /\ obs.surface \notin {FLOOR_Y, CEILING_Y}

----------------------------------------------------------------------------
(* Properties of the run through the first segment, under SpecRun *)

\* at rest on the floor under gravity +1
StandingOnFloor ==
  /\ player.isAlive /\ player.gravityDirection = 1
  /\ player.y = FLOOR_Y - halfSize /\ player.vy = 0

\* the step taken has left the player in a jump from the ground
JumpedOff == player'.vy = -jumpStrength /\ ~player'.isGrounded

\* C14 as stated: a player standing on the floor with a jump press pending
\* ends the next step in a jump, unless a spike is hit in it.
FloorJump ==
  [][(obs'.op = "step" /\ StandingOnFloor /\ input.jumpQueue > 0
        /\ player'.isAlive)
       => JumpedOff]_vars

\* C14: a player standing on the floor with a jump press pending ends the
\* next step in a jump, unless a spike is hit or a portal flips the gravity
\* in it.
FloorJumpUnlessFlipped ==
  [][(obs'.op = "step" /\ StandingOnFloor /\ input.jumpQueue > 0
        /\ player'.isAlive /\ player'.gravityDirection = 1)
       => JumpedOff]_vars

\* a step that repeated the timestamp has consumed a press on the floor and
\* ended in a jump
JumpedInZeroStep ==
  /\ obs.op = "step" /\ obs.dt = 0 /\ obs.queueAtStep > 0
  /\ obs.landedOn = "floor" /\ obs.jump = "normal"
  /\ player.y = FLOOR_Y - halfSize /\ player.vy = -jumpStrength


\* the portals of segment si that the player overlaps and that send it to
\* direction d, as entity indices
PortalsTouched(p, segments, si, d) ==
  { ei \in DOMAIN segments[si].cooldowns :
      LET e == SEGMENT_LIBRARY[segments[si].template].entities[ei]
      IN  /\ e.type = "portal" /\ e.gravity = d
          /\ checkEntityOverlap(getBounds(p), segments[si].offset, e) }

\* C15: a player under gravity +1 that the resolver finds overlapping a
\* portal to -1 whose cooldown is 0 ends the step under gravity -1 with
\* velocity.y 0, position.y >= CEILING_Y + halfSize, not grounded,
\* coyoteTimer 0, and the portal's cooldown at its configured value.
PortalFlip ==
  [][obs'.op = "step" /\ player.isAlive /\ player.gravityDirection = 1
       => \A si \in DOMAIN level.activeSegments :
            \A ei \in PortalsTouched(player', level.activeSegments, si, -1) :
              updateCooldown(level.activeSegments[si].cooldowns[ei], obs'.dt) = 0
                => /\ player'.gravityDirection = -1 /\ player'.vy = 0
                   /\ player'.y >= CEILING_Y + halfSize
                   /\ ~player'.isGrounded /\ player'.coyoteTimer = 0
                   /\ level'.activeSegments[si].cooldowns[ei] =
                        SEGMENT_LIBRARY[level.activeSegments[si].template]
                          .entities[ei].cooldown]_vars

\* a player that was falling has just been flipped by the portal of the
\* first segment
FlippedInFlight ==
  /\ obs.op = "step" /\ player.gravityDirection = -1 /\ player.vy = 0
  /\ player.y < FLOOR_Y - halfSize /\ ~player.isGrounded
  /\ PortalsTouched(player, level.activeSegments, 1, -1) # {}
  /\ \E ei \in PortalsTouched(player, level.activeSegments, 1, -1) :
       level.activeSegments[1].cooldowns[ei] =
         SEGMENT_LIBRARY[level.activeSegments[1].template].entities[ei].cooldown


----------------------------------------------------------------------------
(* Properties of the spike test, under SpecSpike *)

SpikeRect == EntityRect(obs.offset, obs.spike)

\* C16: for an 'up' spike 64 px high, a player centred on the spike's
\* rectangle with its bottom on the rectangle's bottom collides, and a
\* player whose bottom is at or above the rectangle's top does not, wherever
\* it is horizontally.
SpikeScenario ==
  (obs.op = "probe" /\ obs.spike.orientation = "up"
     /\ obs.spike.height = 64 * YU)
    => LET b == getBounds(player)
       IN  /\ (RectCenterX(b) = RectCenterX(SpikeRect)
                 /\ b.bottom = SpikeRect.bottom) => obs.hit
           /\ (b.bottom <= SpikeRect.top) => ~obs.hit

\* a probe touching the top of the rectangle from above at its left edge,
\* then a probe centred with the bottoms level
SpikeProbedBothWays ==
  /\ obs.op = "probe" /\ obs.spike.orientation = "up"
  /\ obs.spike.height = 64 * YU
  /\ obs.before # <<>>
  /\ obs.before[1].bounds.bottom = SpikeRect.top
  /\ RectCenterX(obs.before[1].bounds) = SpikeRect.left
  /\ ~obs.before[1].hit
  /\ RectCenterX(getBounds(player)) = RectCenterX(SpikeRect)
  /\ getBounds(player).bottom = SpikeRect.bottom
  /\ obs.hit


----------------------------------------------------------------------------
(* Properties of the frame clock, under SpecClock *)

\* C17: whatever the two timestamps of a frame callback, the delta time of
\* its step is at most 1/30 s, and the callback steps the player, the level
\* and the HUD once, by that delta time.
DeltaTimeClamp ==
  [][obs'.op = "step" =>
       /\ obs'.dt <= MAX_DELTA_TIME
       /\ hud'.runTime = hud.runTime + obs'.dt
       /\ level'.scrollX = level.scrollX + level'.currentSpeed * obs'.dt
       /\ player'.previousY = player.y]_vars

\* the first step after a restart came after a stall and ran clamped
StalledAfterReset ==
  /\ obs.op = "step" /\ game.attempt = 2
  /\ obs.dt = MAX_DELTA_TIME /\ hud.runTime = MAX_DELTA_TIME
  /\ env.refresh < MAX_DELTA_TIME

\* C18: within an attempt, scrollX after a step is never smaller than
\* scrollX before it, whatever the timestamps of the frame callbacks.
ScrollMonotone ==
  [][obs'.op = "step" => level'.scrollX >= level.scrollX]_vars


----------------------------------------------------------------------------
(* Properties of the input manager, under SpecKeys *)

\* C19: after any sequence of key and pointer events isJumpHeld() is true
\* exactly when a jump key or the pointer is down.
JumpHeldIsKeyOrPointer ==
  isJumpHeld(input) <=> (obs.keysDown # {} \/ obs.pointerDown)


----------------------------------------------------------------------------
(* Properties of the pressed-this-frame signal, under Spec *)

\* C20: a step sees didPressJumpThisFrame() true only if a jump press came
\* after the frame callback before it; so a step whose callback follows
\* another frame callback with no event between the two sees it false.
PressedThisFrameIsFresh ==
  [][(obs'.op = "step" /\ obs.op \in FrameOps)
       => ~didPressJumpThisFrame(input)]_vars


----------------------------------------------------------------------------
(* Properties of the orb, under SpecOrb *)

\* the orb's cooldown after the decrement of the last resolution
OrbCooled == Max(0, obs.before[1].cooldown - obs.dt)

\* the conditions of the last resolution: cooldown over, overlap, intent
OrbGate ==
  /\ OrbCooled = 0
  /\ checkOrbCollision(getBounds(obs.before[1].p),
                       level.activeSegments[obs.slot[1]].offset,
                       OrbOf(level, obs.slot))
  /\ obs.intent

\* C21: in a resolution the orb sets velocity.y to -power * gravityDirection,
\* clears isGrounded and starts its cooldown if and only if its cooldown is 0
\* after the decrement, the hitbox overlaps the circle and there is jump
\* intent; otherwise the player is as before and the cooldown only decremented.
OrbGating ==
  obs.op = "orb" =>
    IF OrbGate
    THEN /\ player.vy = -OrbOf(level, obs.slot).power * player.gravityDirection
         /\ ~player.isGrounded
         /\ OrbCooldown(level, obs.slot) = OrbOf(level, obs.slot).cooldown
    ELSE /\ player = obs.before[1].p
         /\ OrbCooldown(level, obs.slot) = OrbCooled

\* an orb under gravity -1 that has fired again once its cooldown had run
\* out, on a grounded player touching it
OrbFiredAgain ==
  /\ obs.op = "orb" /\ OrbGate
  /\ obs.before[1].cooldown > 0
  /\ obs.before[1].p.isGrounded
  /\ obs.before[1].p.x # OrbX(level, obs.slot)
  /\ player.gravityDirection = -1
  /\ player.vy = OrbOf(level, obs.slot).power


----------------------------------------------------------------------------
(* Properties of the platform landing, under SpecPlay *)

\* C22: a platform lands the player only if the player came from above
\* under gravity +1 (its previous bottom at or above the platform's top, on
\* which it now stands) or from below under gravity -1; otherwise it is not
\* snapped onto the platform.
PlatformOneDirectional ==
  (obs.op = "step" /\ obs.landedOn = "platform")
    => IF player.gravityDirection = 1
       THEN previousBottom(player) <= getBounds(player).bottom
       ELSE previousTop(player) >= getBounds(player).top


----------------------------------------------------------------------------
(* Properties of the window ahead of the camera, under SpecLevel *)

\* C23: after every Level.update, whatever the viewport width, the last
\* active segment ends at or beyond scrollX + viewportWorldWidth +
\* recycleMargin.
WindowCoversAhead ==
  obs.op = "update" =>
    SegEnd(level.activeSegments[Len(level.activeSegments)])
      >= level.scrollX + level.viewportWorldWidth + level.recycleMargin


----------------------------------------------------------------------------
(* Properties of the jump in the air, under SpecPlay *)

\* C24: a step that begins more than coyoteTime after the player last
\* rested on a surface, and in which it does not land, does not end with the
\* normal jump of postResolve.
NoMidAirJump ==
  (obs.op = "step" /\ obs.jump = "normal") => obs.airTime - obs.dt <= coyoteTime


----------------------------------------------------------------------------
(* Properties of the spike's shape, under SpecSpike *)

\* C25: a player centred on a spike whose bounds overlap the spike's
\* rectangle, its bottom below the apex of an 'up' spike (its top above the
\* apex of a 'down' spike), collides with the spike.
SpikeMatchesTriangle ==
  (obs.op = "probe"
     /\ RectCenterX(getBounds(player)) = RectCenterX(SpikeRect)
     /\ Intersects(getBounds(player), SpikeRect)
     /\ IF obs.spike.orientation = "up"
        THEN getBounds(player).bottom > SpikeRect.top
        ELSE getBounds(player).top < SpikeRect.bottom)
    => obs.hit


----------------------------------------------------------------------------
(* Properties of the boost in the running game, under SpecAttempts *)

\* C26: in every state of the running game a speed multiplier above 1 comes
\* with a boost timer above 0.
BoostConsistent == player.speedMultiplier > 100 => player.boostTimer > 0

\* the first booster's boost has run out while the booster still cools down
BoostRanOut ==
  /\ obs.op = "step"
  /\ player.speedMultiplier = 100 /\ player.boostTimer = 0
  /\ \E i \in DOMAIN level.activeSegments :
       \E j \in DOMAIN level.activeSegments[i].cooldowns :
         /\ SEGMENT_LIBRARY[level.activeSegments[i].template].entities[j].type
              = "booster"
         /\ level.activeSegments[i].cooldowns[j] > 0


----------------------------------------------------------------------------
(* Properties of the deferred reset, under SpecApi *)

\* C27: at most one reset timer is pending, and a timer that fires finds the
\* game idle (isRunning false, the player dead) and not stopped by stop().
TimerEndsIdlePeriod ==
  [][/\ game'.timers <= 1
     /\ obs'.op = "timer"
          => ~game.isRunning /\ ~player.isAlive /\ ~obs.stopped]_vars

====
